---- MODULE Spec2Model ----
(***************************************************************************)
(* Model of the LINE reminder robot (src/main.py): the text parser         *)
(* parse_reminder_text, the webhook handler handle_message running on      *)
(* request threads, the APScheduler BackgroundScheduler (memory job store, *)
(* thread-pool executor, default job settings) and send_reminder.          *)
(*                                                                         *)
(* Texts are sequences of characters, one string per character.  The CJK   *)
(* characters of the source are written by their pinyin:                   *)
(*   "yue" U+6708   "ri" U+65E5    "nian" U+5E74   "ti" U+63D0             *)
(*   "qian" U+524D  "zao" U+65E9   "fen" U+5206    "zhong" U+9418          *)
(*   "xing" U+9192  "wo" U+6211     "cha" U+67E5    "kan" U+770B           *)
(*   "de" U+7684    "qing" U+6E05   "chu" U+9664    "suo" U+6240           *)
(*   "you" U+6709                                                          *)
(* Datetimes are naive datetimes at one-second resolution, held as the     *)
(* seconds since 1970-01-01 00:00:00 of the process's zone (taken as UTC). *)
(***************************************************************************)
EXTENDS Integers, Sequences, FiniteSets, TLC

VARIABLES
    clock,           \* the wall clock: what datetime.now() returns
    store,           \* scheduler's MemoryJobStore: job id -> job
    pool,            \* jobs submitted to the executor, not yet run
    user_reminders,  \* the module-level dict user_reminders
    pc,              \* per request thread: position in handle_message
    loc,             \* per request thread: local variables
    msgs,            \* history: the messages received and their outcome
    hist             \* history: one record per scheduler.add_job call

vars == <<clock, store, pool, user_reminders, pc, loc, msgs, hist>>

(***************************************************************************)
(* Characters                                                              *)
(***************************************************************************)
Digits == <<"0", "1", "2", "3", "4", "5", "6", "7", "8", "9">>

IsDigit(c) == \E i \in 1..10 : Digits[i] = c

DigitVal(c) == (CHOOSE i \in 1..10 : Digits[i] = c) - 1

IsSpace(c) == c = " "

InClass(cls, c) == IF cls = "d" THEN IsDigit(c) ELSE IsSpace(c)

\* int(s) of a string of decimal digits: v[i] is the value of s[1..i]
ToInt(s) ==
    LET v[i \in 0..Len(s)] ==
            IF i = 0 THEN 0 ELSE 10 * v[i - 1] + DigitVal(s[i])
    IN v[Len(s)]

\* str(n) of a non-negative integer of at most ten digits
IntStr(n) ==
    LET nd == CHOOSE k \in 1..10 :
                 (n \div (10 ^ (k - 1))) \in (IF n = 0 THEN {0} ELSE 1..9)
    IN [i \in 1..nd |-> Digits[((n \div (10 ^ (nd - i))) % 10) + 1]]

\* str.strip(): leading and trailing whitespace removed
Strip(s) ==
    LET ink == {i \in 1..Len(s) : ~IsSpace(s[i])} IN
    IF ink = {} THEN <<>>
    ELSE SubSeq(s, CHOOSE i \in ink : \A j \in ink : i <= j,
                   CHOOSE i \in ink : \A j \in ink : j <= i)

\* str.lower() on the letters the command words are written with
LowerChar(c) ==
    CASE c = "D" -> "d" [] c = "E" -> "e" [] c = "L" -> "l" [] c = "T" -> "t"
      [] c = "A" -> "a" [] c = "I" -> "i" [] c = "S" -> "s"
      [] OTHER -> c

Lower(s) == [i \in 1..Len(s) |-> LowerChar(s[i])]

\* str.startswith
StartsWith(s, p) == Len(p) <= Len(s) /\ SubSeq(s, 1, Len(p)) = p

(***************************************************************************)
(* Regular expressions: a pattern is a sequence of elements, matched the   *)
(* way Python's re does: greedy repetition with backtracking, alternatives *)
(* tried in order, re.search returning the leftmost match.                 *)
(***************************************************************************)
Lit(c) == [k |-> "lit", c |-> c]

\* cls{lo,hi}, captured as a group when cap
Rep(cls, lo, hi, cap) == [k |-> "rep", cls |-> cls, lo |-> lo, hi |-> hi, cap |-> cap]

\* cls+ (lo = 1) or cls* (lo = 0)
Many(cls, lo, cap) == [k |-> "many", cls |-> cls, lo |-> lo, cap |-> cap]

\* [c1c2...]: one character of a set
OneOf(cs) == [k |-> "oneof", cs |-> cs]

\* (w1|w2|...) of literal words, captured as a group when cap
Alt(ws, cap) == [k |-> "alt", ws |-> ws, cap |-> cap]

NoMatch == [ok |-> FALSE, end |-> 0, caps |-> <<>>]

\* the number of consecutive characters of class cls at text[ti..], at most hi
Run(cls, text, ti, hi) ==
    LET runs == {n \in 0..hi : /\ ti + n - 1 <= Len(text)
                               /\ \A j \in 0..(n - 1) : InClass(cls, text[ti + j])}
    IN CHOOSE n \in runs : \A m \in runs : m <= n

\* the match of pat anchored at text[ti], or NoMatch.  M[pi, i] is the match
\* of pat[pi..] at text[i]; a repetition takes as many characters as it can
\* (T[n]: n characters first, then fewer, down to lo); the alternatives are
\* tried in the order written (A[a])
MatchAt(pat, text, ti) ==
    LET M[pi \in 1..(Len(pat) + 1), i \in 1..(Len(text) + 1)] ==
            IF pi > Len(pat) THEN [ok |-> TRUE, end |-> i, caps |-> <<>>]
            ELSE CASE pat[pi].k = "lit" ->
                        IF i <= Len(text) /\ text[i] = pat[pi].c
                        THEN M[pi + 1, i + 1] ELSE NoMatch
                   [] pat[pi].k = "oneof" ->
                        IF i <= Len(text) /\ text[i] \in pat[pi].cs
                        THEN M[pi + 1, i + 1] ELSE NoMatch
                   [] pat[pi].k \in {"rep", "many"} ->
                        LET hi == IF pat[pi].k = "rep" THEN pat[pi].hi ELSE Len(text)
                            T[n \in 0..hi] ==
                                IF n < pat[pi].lo THEN NoMatch
                                ELSE IF M[pi + 1, i + n].ok
                                THEN IF pat[pi].cap
                                     THEN [M[pi + 1, i + n] EXCEPT
                                             !.caps = <<SubSeq(text, i, i + n - 1)>> \o @]
                                     ELSE M[pi + 1, i + n]
                                ELSE IF n = pat[pi].lo THEN NoMatch
                                ELSE T[n - 1]
                        IN T[Run(pat[pi].cls, text, i, hi)]
                   [] pat[pi].k = "alt" ->
                        LET A[a \in 1..(Len(pat[pi].ws) + 1)] ==
                                IF a > Len(pat[pi].ws) THEN NoMatch
                                ELSE IF /\ i + Len(pat[pi].ws[a]) - 1 <= Len(text)
                                        /\ SubSeq(text, i, i + Len(pat[pi].ws[a]) - 1)
                                               = pat[pi].ws[a]
                                        /\ M[pi + 1, i + Len(pat[pi].ws[a])].ok
                                THEN IF pat[pi].cap
                                     THEN [M[pi + 1, i + Len(pat[pi].ws[a])] EXCEPT
                                             !.caps = <<pat[pi].ws[a]>> \o @]
                                     ELSE M[pi + 1, i + Len(pat[pi].ws[a])]
                                ELSE A[a + 1]
                        IN A[1]
    IN M[1, ti]

\* the match r if it is one, the match other if not
OrElse(r, other) == IF r.ok THEN r ELSE other

\* re.search(pat, text): the leftmost match; groups() is .caps
Search(pat, text) ==
    LET S[i \in 1..(Len(text) + 2)] ==
            IF i > Len(text) + 1 THEN NoMatch
            ELSE OrElse(MatchAt(pat, text, i), S[i + 1])
    IN S[1]

\* the first of the alternatives pats that matches at text[ti]
FirstAlt(pats, text, ti) ==
    LET F[a \in 1..(Len(pats) + 1)] ==
            IF a > Len(pats) THEN NoMatch
            ELSE OrElse(MatchAt(pats[a], text, ti), F[a + 1])
    IN F[1]

\* text[i..] with the match r at text[i] cut out; cut[j] is what is left of text[j..]
CutMatch(r, cut, text, i) ==
    IF r.ok THEN cut[r.end] ELSE <<text[i]>> \o cut[i + 1]

\* re.sub(p1|p2|..., '', text): at each position the first alternative that
\* matches is cut out; none of the alternatives matches the empty string
SubAll(pats, text) ==
    LET Cut[i \in 1..(Len(text) + 1)] ==
            IF i > Len(text) THEN <<>>
            ELSE CutMatch(FirstAlt(pats, text, i), Cut, text, i)
    IN Cut[1]

(***************************************************************************)
(* datetime: the proleptic Gregorian calendar                              *)
(***************************************************************************)
IsLeap(y) == (y % 4 = 0 /\ y % 100 # 0) \/ y % 400 = 0

DaysInMonth(y, m) ==
    IF m = 2 THEN (IF IsLeap(y) THEN 29 ELSE 28)
    ELSE IF m \in {4, 6, 9, 11} THEN 30 ELSE 31

DaysInYear(y) == IF IsLeap(y) THEN 366 ELSE 365

\* days from 1970-01-01 to January 1st of year y (y >= 1970)
DaysBeforeYear(y) ==
    365 * (y - 1970) + ((y - 1969) \div 4) - ((y - 1901) \div 100)
        + ((y - 1601) \div 400)

\* days of a common year before the first of month m
DaysBeforeMonthCommon == <<0, 31, 59, 90, 120, 151, 181, 212, 243, 273, 304, 334>>

DaysBeforeMonth(y, m) ==
    DaysBeforeMonthCommon[m] + (IF m > 2 /\ IsLeap(y) THEN 1 ELSE 0)

\* whether datetime(y, mo, d, h, mi) is constructed rather than raising ValueError
\* (years before 1970 are valid datetimes; the model's texts name none)
ValidDateTime(y, mo, d, h, mi) ==
    /\ y \in 1970..9999
    /\ mo \in 1..12
    /\ d >= 1 /\ d <= DaysInMonth(y, mo)
    /\ h \in 0..23
    /\ mi \in 0..59

\* datetime(y, mo, d, h, mi, s)
DateTime(y, mo, d, h, mi, s) ==
    ((DaysBeforeYear(y) + DaysBeforeMonth(y, mo) + (d - 1)) * 24 + h) * 3600
        + mi * 60 + s

YearOf(t) ==
    LET days == t \div 86400
        y0 == 1970 + (days \div 366)
    IN CHOOSE y \in y0..(y0 + 2) :
          DaysBeforeYear(y) <= days /\ days < DaysBeforeYear(y + 1)

MonthOf(t) ==
    LET y == YearOf(t)
        yd == (t \div 86400) - DaysBeforeYear(y)
    IN CHOOSE m \in 1..12 :
          DaysBeforeMonth(y, m) <= yd /\ yd < DaysBeforeMonth(y, m) + DaysInMonth(y, m)

DayOf(t) ==
    LET y == YearOf(t)
    IN (t \div 86400) - DaysBeforeYear(y) - DaysBeforeMonth(y, MonthOf(t)) + 1

HourOf(t) == (t % 86400) \div 3600

MinuteOf(t) == (t % 3600) \div 60

\* dt - timedelta(minutes=n)
MinusMinutes(t, n) == t - 60 * n

\* dt.strftime("%m/%d %H:%M"): the year and the seconds are not written
Pad2(n) == IF n < 10 THEN <<"0">> \o IntStr(n) ELSE IntStr(n)

TimeStr(t) ==
    Pad2(MonthOf(t)) \o <<"/">> \o Pad2(DayOf(t)) \o <<" ">>
        \o Pad2(HourOf(t)) \o <<":">> \o Pad2(MinuteOf(t))

\* str(dt.timestamp()): a float with no fractional part
TimestampStr(t) == IntStr(t) \o <<".", "0">>

(***************************************************************************)
(* parse_reminder_text                                                     *)
(***************************************************************************)
D12(cap) == Rep("d", 1, 2, cap)

\* patterns[0]: (\d{1,2})yue(\d{1,2})ri\s*(\d{1,2}):(\d{2})
PatMonthDay ==
    <<D12(TRUE), Lit("yue"), D12(TRUE), Lit("ri"), Many("s", 0, FALSE),
      D12(TRUE), Lit(":"), Rep("d", 2, 2, TRUE)>>

\* patterns[1]: (\d{1,2})[/-](\d{1,2})[/-]\s*(\d{1,2}):(\d{2})
PatSlash ==
    <<D12(TRUE), OneOf({"/", "-"}), D12(TRUE), OneOf({"/", "-"}),
      Many("s", 0, FALSE), D12(TRUE), Lit(":"), Rep("d", 2, 2, TRUE)>>

\* patterns[2]: (\d{4})nian(\d{1,2})yue(\d{1,2})ri\s*(\d{1,2}):(\d{2})
PatYear == <<Rep("d", 4, 4, TRUE), Lit("nian")>> \o PatMonthDay

patterns == <<PatMonthDay, PatSlash, PatYear>>

\* (ti qian|ti zao|qian)(\d+)(fen zhong|fen|min)
PatAdvance ==
    <<Alt(<< <<"ti", "qian">>, <<"ti", "zao">>, <<"qian">> >>, TRUE),
      Many("d", 1, TRUE),
      Alt(<< <<"fen", "zhong">>, <<"fen">>, <<"m", "i", "n">> >>, TRUE)>>

\* \d{1,2}yue\d{1,2}ri\s*\d{1,2}:\d{2}|ti qian\d+fen zhong|ti xing wo|ti xing
PatClean ==
    << <<D12(FALSE), Lit("yue"), D12(FALSE), Lit("ri"), Many("s", 0, FALSE),
         D12(FALSE), Lit(":"), Rep("d", 2, 2, FALSE)>>,
       <<Lit("ti"), Lit("qian"), Many("d", 1, FALSE), Lit("fen"), Lit("zhong")>>,
       <<Lit("ti"), Lit("xing"), Lit("wo")>>,
       <<Lit("ti"), Lit("xing")>> >>

\* the loop over patterns: the groups of the first pattern that matches, as integers
GroupsOr(r, other) ==
    IF r.ok THEN [i \in 1..Len(r.caps) |-> ToInt(r.caps[i])] ELSE other

MatchGroups(text) ==
    LET F[p \in 1..(Len(patterns) + 1)] ==
            IF p > Len(patterns) THEN <<>>
            ELSE GroupsOr(Search(patterns[p], text), F[p + 1])
    IN F[1]

\* int(advance_match.group(2)) if advance_match else 15
DefaultAdvance == 15

AdvanceOf(advance_match, group) ==
    IF advance_match.ok THEN ToInt(advance_match.caps[group]) ELSE DefaultAdvance

\* a lead time recognised only in the form the content clean-up knows
AdvanceMinutesNarrow(text) ==
    AdvanceOf(Search(<<Lit("ti"), Lit("qian"), Many("d", 1, TRUE), Lit("fen"),
                       Lit("zhong")>>, text), 1)

AdvanceMinutes(text) == AdvanceOf(Search(PatAdvance, text), 2)

\* re.sub(..., '', text).strip()
Content(text) == Strip(SubAll(PatClean, text))

\* lines 60-65: the year of a text without one.  year, nmonth and nday are
\* what three separate datetime.now() calls returned
ResolveYear(year, month, day, nmonth, nday) ==
    IF month < nmonth \/ (month = nmonth /\ day < nday) THEN year + 1 ELSE year

None == [ok |-> FALSE, dt |-> 0, content |-> <<>>, adv |-> 0]

(***************************************************************************)
(* Inputs: the users, the texts they send and the instants the clock shows *)
(***************************************************************************)
\* user ids are opaque strings; the second begins with the first and "_"
UserA == <<"U", "1">>

UserB == <<"U", "1", "_", "x">>

Users == {UserA, UserB}

\* "1yue1ri 0:06": a date and nothing to be reminded of
DateText == <<"1", "yue", "1", "ri", " ", "0", ":", "0", "6">>

\* "1yue1ri 0:06 X qian6fen": a lead time of 6 minutes
TextLead == DateText \o <<" ", "X", " ", "qian", "6", "fen">>

\* "1yue1ri 0:06 Z": no lead time written
TextPlain == DateText \o <<" ", "Z">>

\* "2023nian1yue1ri 0:06 H tiqian6fenzhong tixing": an explicit year
TextYear ==
    <<"2", "0", "2", "3", "nian">> \o DateText
        \o <<" ", "H", " ", "ti", "qian", "6", "fen", "zhong", "ti", "xing">>

\* "Hi": no date at all
TextNone == <<"H", "i">>

\* "2yue30ri 0:06 Q": a day the month does not have
TextBadDate == <<"2", "yue", "3", "0", "ri", " ", "0", ":", "0", "6", " ", "Q">>

TextClear == <<"D", "e", "l", "e", "t", "e", " ", "a", "l", "l">>

TextList == <<"l", "i", "s", "t">>

Texts ==
    {TextLead, TextPlain, TextYear, DateText, TextNone, TextBadDate, TextClear,
     TextList}

\* the instants the clock passes through: 2023-12-31 23:59:59,
\* 2024-01-01 00:00:00 and 2024-01-01 00:06:00
Start == DateTime(2023, 12, 31, 23, 59, 59)

Timeline == {Start, Start + 1, Start + 361}

\* the messages users send
Messages == ({UserA} \X Texts) \cup ({UserB} \X {TextLead, TextClear})

\* the number of messages the webhook receives
MaxMsgs == 2

Threads == {1, 2}

\* what parse_reminder_text takes from the text alone: the groups of the
\* date pattern, the lead time and the content, tabulated for the texts sent
Lexed ==
    [text \in {Strip(m[2]) : m \in Messages} |->
        [g |-> MatchGroups(text), adv |-> AdvanceMinutes(text),
         content |-> Content(text)]]

\* lines 69-86 once the date components are known: (None, None, 0) when
\* datetime() raises, (dt, content, advance_minutes) otherwise
ParseResult(lex, y, mo, d, h, mi) ==
    IF ~ValidDateTime(y, mo, d, h, mi) THEN None
    ELSE [ok |-> TRUE, dt |-> DateTime(y, mo, d, h, mi, 0),
          content |-> lex.content, adv |-> lex.adv]

\* parse_reminder_text(text), with n1, n2, n3 the instants its three
\* datetime.now() calls (line 62, and twice on line 64) return
\* lines 56-86 on what the text holds: four groups take the year from the
\* clock, five name it
ParseLexed(lex, n1, n2, n3) ==
    IF Len(lex.g) = 4
    THEN ParseResult(lex, ResolveYear(YearOf(n1), lex.g[1], lex.g[2],
                                      MonthOf(n2), DayOf(n3)),
                     lex.g[1], lex.g[2], lex.g[3], lex.g[4])
    ELSE IF Len(lex.g) = 5
    THEN ParseResult(lex, lex.g[1], lex.g[2], lex.g[3], lex.g[4], lex.g[5])
    ELSE None

parse_reminder_text(text, n1, n2, n3) == ParseLexed(Lexed[text], n1, n2, n3)

(***************************************************************************)
(* The job store and the scheduler (APScheduler, default job settings)     *)
(***************************************************************************)
\* "reminder_"
ReminderPrefix == <<"r", "e", "m", "i", "n", "d", "e", "r", "_">>

\* job_id = f"reminder_{user_id}_{dt.timestamp()}"
JobId(uid, dt) == ReminderPrefix \o uid \o <<"_">> \o TimestampStr(dt)

\* job.id.startswith(f"reminder_{user_id}_")
OwnsJob(uid, id) == StartsWith(id, ReminderPrefix \o uid \o <<"_">>)

\* the code points of the characters job ids are written with
Ord(c) ==
    CASE c = "." -> 46 [] IsDigit(c) -> 48 + DigitVal(c) [] c = "U" -> 85
      [] c = "_" -> 95 [] c = "d" -> 100 [] c = "e" -> 101 [] c = "i" -> 105
      [] c = "m" -> 109 [] c = "n" -> 110 [] c = "r" -> 114 [] c = "x" -> 120

\* s < t for strings: L[i] compares them from position i on
StrLess(s, t) ==
    LET L[i \in 1..(Len(t) + 1)] ==
            IF i > Len(t) THEN FALSE
            ELSE IF i > Len(s) THEN TRUE
            ELSE IF s[i] = t[i] THEN L[i + 1]
            ELSE Ord(s[i]) < Ord(t[i])
    IN L[1]

\* the memory job store keeps its jobs ordered by (next run time, job id)
JobBefore(a, b) ==
    a.run_date < b.run_date \/ (a.run_date = b.run_date /\ StrLess(a.id, b.id))

\* scheduler.get_jobs(): a snapshot of the store, in the store's order
SortedJobs(js) ==
    [i \in 1..Cardinality(js) |->
        CHOOSE a \in js : Cardinality({b \in js : JobBefore(b, a)}) = i - 1]

get_jobs(st) == SortedJobs({st[id] : id \in DOMAIN st})

\* a store that keeps the job it has when the id is taken
PutJobKeepOld(st, job) ==
    [id \in DOMAIN st \cup {job.id} |-> IF id \in DOMAIN st THEN st[id] ELSE job]

\* add_job(..., id=job_id, replace_existing=True): insert, or replace the job
\* that has the id
PutJob(st, job) ==
    [id \in DOMAIN st \cup {job.id} |-> IF id = job.id THEN job ELSE st[id]]

\* remove_job(job_id) on a job that is in the store
DropJobs(st, ids) == [id \in DOMAIN st \ ids |-> st[id]]

\* the jobs the scheduler thread finds due: next run time <= now
DueJobs(st, now) == {id \in DOMAIN st : st[id].run_date <= now}

\* a scheduler that leaves the submitted jobs in the store
StoreKept(st, due) == st

\* a date trigger has no further run time: the job is removed once submitted
StoreAfterSubmit(st, due) == DropJobs(st, due)

\* BackgroundScheduler() is built with no job_defaults: misfire_grace_time is 1 s
MisfireGraceTime == 1

\* the executor skips a run that is later than the grace time
Misfired(job, now) == now - job.run_date > MisfireGraceTime

\* an executor that keeps a job whose push failed, to run it again
PoolRetry(p, job, pushed) == IF pushed THEN p \ {job} ELSE p

\* the executor's queue once job was run: a run is never repeated, whatever
\* send_reminder did
PoolAfterRun(p, job, pushed) == p \ {job}

(***************************************************************************)
(* handle_message                                                          *)
(***************************************************************************)
ListCommands ==
    { <<"cha", "kan", "ti", "xing">>, <<"wo", "de", "ti", "xing">>,
      <<"l", "i", "s", "t">> }

ClearCommands ==
    { <<"qing", "chu", "suo", "you", "ti", "xing">>,
      <<"d", "e", "l", "e", "t", "e", " ", "a", "l", "l">> }

\* a check that lets the current instant through
IsPastStrict(dt, now) == dt < now

\* if dt <= datetime.now()
IsPast(dt, now) == dt <= now

NoLoc == [k |-> 0, recvAt |-> 0, parsed |-> None, snap |-> <<>>, count |-> 0]

NewMsg(uid, text) ==
    [uid |-> uid, text |-> text, branch |-> "pending", reply |-> "none",
     http |-> "none", parsed |-> None, count |-> 0, seen |-> {}, own |-> {}, removed |-> {}]

NewHist(k, job, dt, now) ==
    [msg |-> k, job |-> job, dt |-> dt, at |-> now, early |-> now <= job.run_date,
     claimed |-> 0, claimedAt |-> 0, calls |-> <<>>, pushFailed |-> FALSE, missed |-> FALSE,
     done |-> FALSE, replaced |-> FALSE, cleared |-> FALSE]

Init ==
    /\ clock = Start
    /\ store = <<>>
    /\ pool = {}
    /\ user_reminders = <<>>
    /\ pc = [t \in Threads |-> "idle"]
    /\ loc = [t \in Threads |-> NoLoc]
    /\ msgs = <<>>
    /\ hist = <<>>

\* time passes
Tick ==
    /\ \E t \in Timeline : t > clock /\ clock' = t
    /\ UNCHANGED <<store, pool, user_reminders, pc, loc, msgs, hist>>

\* the web server hands a request to a free thread; which one makes no
\* difference, the model takes the first
FreeThread(t) ==
    /\ pc[t] = "idle"
    /\ \A u \in Threads : pc[u] = "idle" => t <= u

\* lines 187-189, 195, 224: a message arrives and is recognised as a command
\* or handed to the parser
Receive(t, uid, text) ==
    /\ FreeThread(t)
    /\ Len(msgs) < MaxMsgs
    /\ msgs' = Append(msgs, NewMsg(uid, text))
    /\ loc' = [loc EXCEPT ![t] = [NoLoc EXCEPT !.k = Len(msgs) + 1,
                                                !.recvAt = clock]]
    /\ pc' = [pc EXCEPT ![t] =
                IF Lower(Strip(text)) \in ListCommands THEN "list"
                ELSE IF Lower(Strip(text)) \in ClearCommands THEN "clear"
                ELSE "parse"]
    /\ UNCHANGED <<clock, store, pool, user_reminders, hist>>

\* user_message = event.message.text.strip()
UserMessage(k) == Strip(msgs[k].text)

\* the record kept in user_reminders (lines 280-285)
ReminderRecord(uid, p) ==
    [user_id |-> uid, content |-> p.content, time |-> TimeStr(p.dt),
     advance |-> p.adv]

\* lines 243-285.  The step is taken when line 263 reads the clock; the three
\* readings parse_reminder_text made before (it changes nothing but its own
\* locals) lie between the arrival of the message and this instant.
\* No date or no content asks for the format again; a time that is not in
\* the future is refused; otherwise the reminder is noted in user_reminders.
ParseCheck(t) ==
    /\ pc[t] = "parse"
    /\ \E n1, n2, n3 \in {n \in Timeline : loc[t].recvAt <= n /\ n <= clock} :
        /\ n1 <= n2 /\ n2 <= n3
        /\ \E k \in {loc[t].k} :
           \E p \in {parse_reminder_text(UserMessage(k), n1, n2, n3)} :
              /\ loc' = [loc EXCEPT ![t].parsed = p]
              /\ IF ~p.ok \/ p.content = <<>>
                 THEN /\ msgs' = [msgs EXCEPT ![k].branch = "ParseFailed",
                                              ![k].parsed = p]
                      /\ pc' = [pc EXCEPT ![t] = "reply"]
                      /\ UNCHANGED user_reminders
                 ELSE IF IsPast(p.dt, clock)
                 THEN /\ msgs' = [msgs EXCEPT ![k].branch = "TimeInPast",
                                              ![k].parsed = p]
                      /\ pc' = [pc EXCEPT ![t] = "reply"]
                      /\ UNCHANGED user_reminders
                 ELSE /\ msgs' = [msgs EXCEPT ![k].parsed = p]
                      /\ pc' = [pc EXCEPT ![t] = "add_job"]
                      /\ user_reminders' =
                           LET id == JobId(msgs[k].uid, p.dt) IN
                           [i \in DOMAIN user_reminders \cup {id} |->
                               IF i = id THEN ReminderRecord(msgs[k].uid, p)
                               ELSE user_reminders[i]]
    /\ UNCHANGED <<clock, store, pool, hist>>

\* the job lines 276-294 hand to the scheduler
NewJob(uid, p, seq) ==
    [id |-> JobId(uid, p.dt),
     run_date |-> MinusMinutes(p.dt, p.adv),
     args |-> [user_id |-> uid, content |-> p.content,
               time_str |-> TimeStr(p.dt), advance_minutes |-> p.adv],
     seq |-> seq]

\* lines 287-294: scheduler.add_job, one step under the scheduler's lock
AddJob(t) ==
    /\ pc[t] = "add_job"
    /\ LET k == loc[t].k
           job == NewJob(msgs[k].uid, loc[t].parsed, Len(hist) + 1)
           old == IF job.id \in DOMAIN store THEN {store[job.id].seq} ELSE {}
       IN /\ store' = PutJob(store, job)
          /\ hist' = Append([s \in 1..Len(hist) |->
                                IF s \in old THEN [hist[s] EXCEPT !.replaced = TRUE]
                                ELSE hist[s]],
                            NewHist(k, job, loc[t].parsed.dt, clock))
          /\ msgs' = [msgs EXCEPT ![k].branch = "Scheduled"]
    /\ pc' = [pc EXCEPT ![t] = "reply"]
    /\ UNCHANGED <<clock, pool, user_reminders, loc>>

\* lines 196-204: the list command collects the jobs whose id has the user's prefix
ListJobs(t) ==
    /\ pc[t] = "list"
    /\ LET k == loc[t].k
           js == get_jobs(store)
       IN msgs' = [msgs EXCEPT
              ![k].branch = "Listed",
              ![k].seen = {js[i].seq : i \in {j \in 1..Len(js) :
                                          OwnsJob(msgs[k].uid, js[j].id)}},
              ![k].own = {js[i].seq : i \in {j \in 1..Len(js) :
                                          js[j].args.user_id = msgs[k].uid}}]
    /\ pc' = [pc EXCEPT ![t] = "reply"]
    /\ UNCHANGED <<clock, store, pool, user_reminders, loc, hist>>

\* line 226: the clear command takes a snapshot of the store
ClearSnapshot(t) ==
    /\ pc[t] = "clear"
    /\ LET k == loc[t].k
           js == get_jobs(store)
       IN /\ loc' = [loc EXCEPT ![t].snap = [i \in 1..Len(js) |-> js[i].id]]
          /\ msgs' = [msgs EXCEPT
                ![k].own = {js[i].seq : i \in {j \in 1..Len(js) :
                                            js[j].args.user_id = msgs[k].uid}}]
    /\ pc' = [pc EXCEPT ![t] = "clear_loop"]
    /\ UNCHANGED <<clock, store, pool, user_reminders, hist>>

\* the snapshot from its first job that has the user's prefix on
SkipOthers(uid, snap) ==
    LET own == {i \in 1..Len(snap) : OwnsJob(uid, snap[i])} IN
    IF own = {} THEN <<>>
    ELSE SubSeq(snap, CHOOSE i \in own : \A j \in own : i <= j, Len(snap))

\* lines 226-229: the loop goes to the next job with the user's prefix and
\* removes it; remove_job raises JobLookupError for a job no longer in the
\* store; after the last job the count is reported
ClearStep(t) ==
    /\ pc[t] = "clear_loop"
    /\ LET k == loc[t].k
           rest == SkipOthers(msgs[k].uid, loc[t].snap)
       IN IF rest = <<>>
          THEN /\ msgs' = [msgs EXCEPT ![k].branch = "Cleared",
                                       ![k].count = loc[t].count]
               /\ pc' = [pc EXCEPT ![t] = "reply"]
               /\ UNCHANGED <<store, hist, loc>>
          ELSE IF Head(rest) \in DOMAIN store
          THEN /\ store' = DropJobs(store, {Head(rest)})
               /\ hist' = [hist EXCEPT ![store[Head(rest)].seq].cleared = TRUE]
               /\ msgs' = [msgs EXCEPT
                     ![k].removed = @ \cup {store[Head(rest)].seq}]
               /\ loc' = [loc EXCEPT ![t].snap = Tail(rest),
                                     ![t].count = @ + 1]
               /\ UNCHANGED pc
          ELSE /\ msgs' = [msgs EXCEPT ![k].branch = "Error"]
               /\ pc' = [pc EXCEPT ![t] = "except"]
               /\ UNCHANGED <<store, hist, loc>>
    /\ UNCHANGED <<clock, pool, user_reminders>>

\* lines 174-182: what the webhook request answers once handler.handle is
\* done: 'OK', or abort(500) when an exception came out of handle_message
callback(outcome) == IF outcome = "fault" THEN "500" ELSE "OK"

\* handle_message returns, or an exception leaves it ("fault")
Finish(t, reply) ==
    /\ msgs' = [msgs EXCEPT ![loc[t].k].reply = reply,
                            ![loc[t].k].http = callback(reply)]
    /\ pc' = [pc EXCEPT ![t] = "idle"]
    /\ loc' = [loc EXCEPT ![t] = NoLoc]

\* the reply_message call of the branch taken; it may raise
Reply(t) ==
    /\ pc[t] = "reply"
    /\ \E ok \in BOOLEAN :
          IF ok THEN Finish(t, "ok")
          ELSE /\ pc' = [pc EXCEPT ![t] = "except"]
               /\ UNCHANGED <<loc, msgs>>
    /\ UNCHANGED <<clock, store, pool, user_reminders, hist>>

\* lines 310-318: the except branch sends the error reply; if that raises too
\* the exception leaves handle_message
Except(t) ==
    /\ pc[t] = "except"
    /\ \E ok \in BOOLEAN : Finish(t, IF ok THEN "error_replied" ELSE "fault")
    /\ UNCHANGED <<clock, store, pool, user_reminders, hist>>

(***************************************************************************)
(* The scheduler thread and the executor                                   *)
(***************************************************************************)
\* the scheduler thread, under its lock: every due job is submitted to the
\* executor and, its date trigger being spent, removed from the store
ProcessJobs ==
    /\ DueJobs(store, clock) # {}
    /\ LET due == DueJobs(store, clock) IN
          /\ pool' = pool \cup {store[id] : id \in due}
          /\ store' = StoreAfterSubmit(store, due)
          /\ hist' = [s \in 1..Len(hist) |->
                        IF \E id \in due : store[id].seq = s
                        THEN [hist[s] EXCEPT !.claimed = @ + 1, !.claimedAt = clock]
                        ELSE hist[s]]
    /\ UNCHANGED <<clock, user_reminders, pc, loc, msgs>>

\* a worker thread runs a submitted job: a run later than the misfire grace
\* time is skipped, otherwise send_reminder(*args) is called (lines 320-348),
\* which catches the exception push_message may raise
RunJob(job) ==
    /\ job \in pool
    /\ \E pushed \in BOOLEAN :
          /\ pool' = PoolAfterRun(pool, job, pushed)
          /\ hist' = [hist EXCEPT ![job.seq] =
                IF Misfired(job, clock)
                THEN [@ EXCEPT !.missed = TRUE, !.done = TRUE]
                ELSE [@ EXCEPT !.calls = Append(@, job.args),
                               !.pushFailed = @ \/ ~pushed,
                               !.done = TRUE]]
    /\ UNCHANGED <<clock, store, user_reminders, pc, loc, msgs>>

Next ==
    \/ Tick
    \/ \E t \in Threads : \E m \in Messages : Receive(t, m[1], m[2])
    \/ \E t \in Threads : ParseCheck(t)
    \/ \E t \in Threads : AddJob(t)
    \/ \E t \in Threads : ListJobs(t)
    \/ \E t \in Threads : ClearSnapshot(t)
    \/ \E t \in Threads : ClearStep(t)
    \/ \E t \in Threads : Reply(t)
    \/ \E t \in Threads : Except(t)
    \/ ProcessJobs
    \/ \E job \in pool : RunJob(job)

Spec == Init /\ [][Next]_vars

\* the scheduler thread and the executor's workers are threads of their own
\* and keep running
FairSpec ==
    Spec /\ WF_vars(ProcessJobs) /\ WF_vars(\E job \in pool : RunJob(job))

(***************************************************************************)
(* Properties                                                              *)
(***************************************************************************)
\* the job of add_job call s is still in the store
InStore(s) ==
    /\ hist[s].job.id \in DOMAIN store
    /\ store[hist[s].job.id].seq = s

Owner(s) == hist[s].job.args.user_id

\* C1: a job that was accepted and neither replaced nor cleared is run by one
\* send_reminder call with the arguments captured at add_job, and is then no
\* longer in the store.  Stated of the jobs the executor is done with.
C1_FiredExactlyOnce ==
    \A s \in 1..Len(hist) :
        (hist[s].done /\ ~hist[s].replaced /\ ~hist[s].cleared) =>
            /\ hist[s].calls = <<hist[s].job.args>>
            /\ ~InStore(s)

\* C2: the store holds at most one job per (owner, trigger instant); the job
\* it holds is the one of the latest add_job for that owner and instant, with
\* that call's run time and arguments; a replaced job is never claimed or run.
C2_OneJobPerOwnerAndInstant ==
    /\ \A i, j \in DOMAIN store :
          (store[i].args.user_id = store[j].args.user_id
              /\ hist[store[i].seq].dt = hist[store[j].seq].dt) => i = j
    /\ \A i \in DOMAIN store : \A s \in 1..Len(hist) :
          (Owner(s) = store[i].args.user_id /\ hist[s].dt = hist[store[i].seq].dt)
              => /\ s <= store[i].seq
                 /\ store[i] = hist[store[i].seq].job
    /\ \A s \in 1..Len(hist) :
          hist[s].replaced =>
              /\ hist[s].claimed = 0 /\ hist[s].calls = <<>>
              /\ ~InStore(s) /\ hist[s].job \notin pool

\* a job has been replaced by one with another content and lead time, which
\* is the one in the store
C2_Witness ==
    \E s \in 1..Len(hist) : \E i \in DOMAIN store :
        /\ hist[s].replaced
        /\ i = hist[s].job.id
        /\ store[i].seq > s
        /\ store[i].args.content # hist[s].job.args.content
        /\ store[i].args.advance_minutes # hist[s].job.args.advance_minutes

\* C3: a clear-all by user A removes exactly the jobs A submitted that the
\* store held, reports their number, and removes no job of another user.
C3_ClearRemovesOwnJobsOnly ==
    \A k \in 1..Len(msgs) :
        msgs[k].branch = "Cleared" =>
            /\ msgs[k].removed = msgs[k].own
            /\ msgs[k].count = Cardinality(msgs[k].own)
            /\ \A s \in msgs[k].removed : Owner(s) = msgs[k].uid

\* the job of add_job call s is in the store and its run time has come
DueInStore(s) ==
    /\ s <= Len(hist)
    /\ InStore(s)
    /\ hist[s].job.run_date <= clock

\* C4: with the scheduler thread running, a job that is in the store when its
\* run time has come is claimed, unless it is cleared or replaced first, and
\* no job is claimed twice, whatever the request threads do meanwhile.
C4_ClaimedExactlyOnce ==
    /\ [](\A s \in 1..Len(hist) : hist[s].claimed <= 1)
    /\ \A s \in 1..MaxMsgs :
          DueInStore(s) ~>
              (s <= Len(hist)
                 /\ (hist[s].claimed = 1 \/ hist[s].replaced \/ hist[s].cleared))

\* a job has been claimed while a request thread is about to add a job
C4_Witness ==
    \E s \in 1..Len(hist) : \E t \in Threads :
        hist[s].claimed = 1 /\ pc[t] = "add_job"

\* the grace window the design recommends: 5 minutes
DesignGraceWindow == 5 * 60

\* C5: a job that was in the store before its run time, and which the
\* scheduler gets to only after its run time plus the grace window, is still
\* handed to send_reminder.
C5_LateJobStillFired ==
    \A s \in 1..Len(hist) :
        (hist[s].done
            /\ hist[s].early
            /\ hist[s].claimedAt > hist[s].job.run_date + DesignGraceWindow)
        => Len(hist[s].calls) = 1

\* C6: a job whose push failed is fired and removed all the same: it is in
\* neither the store nor the executor's queue, send_reminder was called for it
\* once, and the scheduler thread and the workers can go on with the other jobs.
C6_FailedPushStillFired ==
    \A s \in 1..Len(hist) :
        hist[s].pushFailed =>
            /\ hist[s].done
            /\ Len(hist[s].calls) = 1
            /\ ~InStore(s)
            /\ hist[s].job \notin pool
            /\ (DueJobs(store, clock) # {} => ENABLED ProcessJobs)
            /\ \A job \in pool : ENABLED RunJob(job)

\* the push of one job failed and another job was delivered
C6_Witness ==
    \E s, r \in 1..Len(hist) :
        /\ hist[s].pushFailed
        /\ ~hist[r].pushFailed /\ Len(hist[r].calls) = 1

WrittenYear(text) ==
    LET at == {i \in 1..Len(text) :
                  /\ i + 4 <= Len(text)
                  /\ \A j \in i..(i + 3) : IsDigit(text[j])
                  /\ text[i + 4] = "nian"}
    IN IF at = {} THEN 0
       ELSE LET i == CHOOSE i \in at : \A j \in at : i <= j
            IN ToInt(SubSeq(text, i, i + 3))

\* C8: a text with an explicit year compiles to a trigger instant in that
\* year, and is refused as past when that year lies before the current one.
C8_ExplicitYearVerbatim ==
    \A k \in 1..Len(msgs) :
        LET y == WrittenYear(UserMessage(k)) IN
        (y # 0 /\ msgs[k].parsed.ok) =>
            /\ YearOf(msgs[k].parsed.dt) = y
            /\ (y < YearOf(clock) => msgs[k].branch \in {"pending", "TimeInPast"})

\* the year the rule gives for (month, day) at the instant now
RuleYear(month, day, now) ==
    IF month < MonthOf(now) \/ (month = MonthOf(now) /\ day < DayOf(now))
    THEN YearOf(now) + 1 ELSE YearOf(now)

\* C9: a text without a year compiles to the year the rule gives at one
\* instant between the arrival of the message and the end of the parse.
C9_YearRuleAtOneInstant ==
    [][\A t \in Threads :
          (pc[t] = "parse" /\ pc'[t] # "parse" /\ loc'[t].parsed.ok
              /\ Len(Lexed[UserMessage(loc[t].k)].g) = 4)
          => \E now \in Timeline :
                /\ loc[t].recvAt <= now /\ now <= clock
                /\ YearOf(loc'[t].parsed.dt)
                     = RuleYear(Lexed[UserMessage(loc[t].k)].g[1],
                                Lexed[UserMessage(loc[t].k)].g[2], now)
      ]_vars

\* the places where a lead time is written: a qualifier at i, digits from j
\* to k - 1, a minutes word at k
LeadSites(text) ==
    {site \in (1..Len(text)) \X (1..Len(text)) \X (1..Len(text)) :
        LET i == site[1]
            j == site[2]
            k == site[3]
        IN /\ i < j /\ j < k
           /\ SubSeq(text, i, j - 1) \in {<<"ti", "qian">>, <<"ti", "zao">>, <<"qian">>}
           /\ \A d \in j..(k - 1) : IsDigit(text[d])
           /\ \/ text[k] = "fen"
              \/ (k + 2 <= Len(text) /\ SubSeq(text, k, k + 2) = <<"m", "i", "n">>)}

\* the integer of the first lead time written in the text, 15 when none is
WrittenLead(text) ==
    IF LeadSites(text) = {} THEN 15
    ELSE LET site == CHOOSE a \in LeadSites(text) :
                        \A b \in LeadSites(text) : a[1] <= b[1]
         IN ToInt(SubSeq(text, site[2], site[3] - 1))

\* the written lead times of the texts sent, tabulated
Written ==
    [text \in {Strip(m[2]) : m \in Messages} |->
        [lead |-> WrittenLead(text), some |-> LeadSites(text) # {}]]

\* C10: the lead minutes of an accepted submit are the integer written in the
\* text's lead time, 15 when the text has none, and the job runs at the
\* trigger instant minus that many minutes.
C10_LeadMinutes ==
    \A s \in 1..Len(hist) :
        LET lead == hist[s].job.args.advance_minutes IN
        /\ lead = Written[UserMessage(hist[s].msg)].lead
        /\ hist[s].job.run_date = hist[s].dt - 60 * lead

\* one accepted submit with a written lead time of 6 minutes and one without
C10_Witness ==
    \E s, r \in 1..Len(hist) :
        /\ hist[s].job.args.advance_minutes = 6
        /\ Written[UserMessage(hist[s].msg)].some
        /\ hist[r].job.args.advance_minutes = 15
        /\ ~Written[UserMessage(hist[r].msg)].some

\* C11: a submit whose text holds no date, or a date the calendar does not
\* have, ends as ParseFailed with the store and the job history as they were,
\* and no exception leaves handle_message for it.
C11_ParseFailedNoFault ==
    /\ [][\A t \in Threads :
             (pc[t] = "parse" /\ pc'[t] # "parse" /\ ~loc'[t].parsed.ok)
                 => /\ msgs'[loc[t].k].branch = "ParseFailed"
                    /\ store' = store /\ hist' = hist]_vars
    /\ [](\A k \in 1..Len(msgs) :
             (msgs[k].branch = "ParseFailed" /\ ~msgs[k].parsed.ok)
                 => msgs[k].reply # "fault")

\* C12: when the error reply of the except branch fails too, nothing leaves
\* the handling path and the webhook request answers as for any message.
C12_SecondaryFailureContained ==
    \A k \in 1..Len(msgs) :
        msgs[k].reply # "none" =>
            /\ msgs[k].reply # "fault"
            /\ msgs[k].http = "OK"

\* C13: the list command of user A shows exactly the jobs in the store that A
\* submitted, whatever jobs other users have there.
C13_ListShowsOwnJobsOnly ==
    \A k \in 1..Len(msgs) :
        msgs[k].branch = "Listed" =>
            /\ msgs[k].seen = msgs[k].own
            /\ \A s \in msgs[k].seen : Owner(s) = msgs[k].uid

\* what counts as a date/time fragment or a lead-time expression: the three
\* date forms (the one with a year first) and the lead-time form
PatLabel == <<PatYear, PatMonthDay, PatSlash, PatAdvance>>

\* the texts sent with these fragments cut out, trimmed
Labelled ==
    [text \in {Strip(m[2]) : m \in Messages} |-> Strip(SubAll(PatLabel, text))]

\* C14: the label of a text that compiles is the text with its date/time
\* fragment and its lead-time expression removed, trimmed.
C14_LabelIsTextWithoutFragments ==
    \A k \in 1..Len(msgs) :
        msgs[k].parsed.ok => msgs[k].parsed.content = Labelled[UserMessage(k)]

\* C15: a clear-all whose loop is over, also one the scheduler thread took a
\* job away from, ended as Cleared, and none of the user's jobs that it found
\* in the store and that was not claimed is in the store still.
C15_ClearCompletesDespiteFiring ==
    \A k \in 1..Len(msgs) :
        msgs[k].branch \in {"Cleared", "Error"} =>
            /\ msgs[k].branch = "Cleared"
            /\ \A s \in msgs[k].own : hist[s].claimed = 0 => ~InStore(s)

\* C16: once send_reminder was called for a job, the store holds no job of
\* that id again, and send_reminder is called for no other job of that id.
C16_FiredJobNeverPendingAgain ==
    \A s \in 1..Len(hist) :
        hist[s].calls # <<>> =>
            /\ hist[s].job.id \notin DOMAIN store
            /\ \A r \in 1..Len(hist) :
                  (r # s /\ hist[r].job.id = hist[s].job.id) => hist[r].calls = <<>>

\* C17: of two completed submits of one job_id with different payloads, the
\* job left in the store is the one of the submit received later.
C17_LaterSubmitWins ==
    \A s \in 1..Len(hist) : \A r \in 1..Len(hist) :
        ( /\ hist[s].msg < hist[r].msg
          /\ hist[s].job.id = hist[r].job.id
          /\ hist[s].job.args # hist[r].job.args
          /\ msgs[hist[s].msg].reply # "none"
          /\ msgs[hist[r].msg].reply # "none"
          /\ InStore(r) \/ InStore(s) )
            => /\ store[hist[r].job.id].args = hist[r].job.args
               /\ store[hist[r].job.id].run_date = hist[r].job.run_date

\* C18: a submit whose job was added to the store never ends with the
\* generic error reply nor with an exception leaving handle_message.
C18_ConfirmationFailureSwallowed ==
    \A k \in 1..Len(msgs) :
        msgs[k].branch = "Scheduled" =>
            msgs[k].reply \notin {"error_replied", "fault"}

\* C19: a job added with its run_date at or before the instant of the
\* add_job call is run by send_reminder, never skipped by the scheduler.
C19_OverdueLeadStillFired ==
    \A s \in 1..Len(hist) :
        (hist[s].job.run_date <= hist[s].at /\ hist[s].at < hist[s].dt) =>
            /\ msgs[hist[s].msg].branch = "Scheduled"
            /\ ~hist[s].missed

SubmitInProgress ==
    \E t \in Threads :
        \/ pc[t] \in {"parse", "add_job"}
        \/ /\ pc[t] \in {"reply", "except"}
           /\ msgs[loc[t].k].branch \in {"ParseFailed", "TimeInPast", "Scheduled"}

\* C20: when no submit is in progress, every job of the store has its record
\* in user_reminders with the job's payload, and a job that was taken by the
\* scheduler or cleared, and is no longer in the store, has no record.
C20_SideTableAgreesWithStore ==
    ~SubmitInProgress =>
        /\ \A id \in DOMAIN store :
              /\ id \in DOMAIN user_reminders
              /\ user_reminders[id].user_id = store[id].args.user_id
              /\ user_reminders[id].content = store[id].args.content
              /\ user_reminders[id].time = store[id].args.time_str
              /\ user_reminders[id].advance = store[id].args.advance_minutes
        /\ \A s \in 1..Len(hist) :
              ((hist[s].claimed = 1 \/ hist[s].cleared)
                  /\ hist[s].job.id \notin DOMAIN store)
                    => hist[s].job.id \notin DOMAIN user_reminders

====
